---- MODULE Spec2Model ----
(***************************************************************************)
(* GitHub Repository Summarizer (src/main.py).                             *)
(*                                                                         *)
(* One POST /summarize request runs a forward pipeline:                    *)
(*   parse_github_url -> collect_repo_content (fetch_repo_metadata,        *)
(*   fetch_raw_file x PRIORITY_FILES, pick_source_files, fetch_raw_file x  *)
(*   chosen) -> emptiness check -> build_context -> call_nebius -> reply.  *)
(*                                                                         *)
(* Representation.  A Python str whose characters are inspected (URLs,     *)
(* file names, provider text) is a sequence of one-character strings; the  *)
(* backtick, which a TLA+ string cannot hold, is written "BT".  The text   *)
(* of a fetched file is never inspected by the program, only measured and  *)
(* sliced, so it is represented by its length.                             *)
(***************************************************************************)
EXTENDS Integers, Sequences, FiniteSets, TLC

VARIABLES
    pc,              \* position of the handler / of the function under study
    github_url,      \* SummarizeRequest.github_url
    owner,           \* parse_github_url result
    repo,
    api_key,         \* TRUE iff NEBIUS_API_KEY is set to a non-blank value
    remote,          \* the repository as GitHub would serve it (environment)
    default_branch,  \* fetch_repo_metadata: resolved branch
    entries,         \* fetch_repo_metadata: root listing
    idx,             \* loop index of the fetch loops of collect_repo_content
    files,           \* collect_repo_content: files (insertion ordered dict)
    source_files,    \* collect_repo_content: source_files
    directory,       \* collect_repo_content: directory
    chosen,          \* pick_source_files result
    last_fetch,      \* the most recent repository fetch and its outcome
    context,         \* build_context result
    provider,        \* what the completion provider did with the request
    raised,          \* exception propagating out of the current stage
    result,          \* call_nebius return value (parsed JSON)
    response         \* what summarize returned

vars == << pc, github_url, owner, repo, api_key, remote, default_branch,
           entries, idx, files, source_files, directory, chosen, last_fetch,
           context, provider, raised, result, response >>

(***************************************************************************)
(* Program constants                                                       *)
(***************************************************************************)
PRIORITY_FILES ==
    << <<"R","E","A","D","M","E",".","m","d">>,   \* README.md
       <<"R","E","A","D","M","E",".","r","s","t">>,   \* README.rst
       <<"R","E","A","D","M","E",".","t","x","t">>,   \* README.txt
       <<"p","y","p","r","o","j","e","c","t",".","t","o","m","l">>,   \* pyproject.toml
       <<"r","e","q","u","i","r","e","m","e","n","t","s",".","t","x","t">>,   \* requirements.txt
       <<"p","a","c","k","a","g","e",".","j","s","o","n">>,   \* package.json
       <<"C","a","r","g","o",".","t","o","m","l">>,   \* Cargo.toml
       <<"g","o",".","m","o","d">>,   \* go.mod
       <<"s","e","t","u","p",".","p","y">>,   \* setup.py
       <<"s","e","t","u","p",".","c","f","g">> >>   \* setup.cfg

SOURCE_EXTENSIONS ==
    { <<".","p","y">>,   \* .py
      <<".","j","s">>,   \* .js
      <<".","t","s">>,   \* .ts
      <<".","g","o">>,   \* .go
      <<".","r","s">>,   \* .rs
      <<".","j","a","v","a">>,   \* .java
      <<".","r","b">>,   \* .rb
      <<".","c","p","p">>,   \* .cpp
      <<".","c">>,   \* .c
      <<".","c","s">>,   \* .cs
      <<".","s","w","i","f","t">>,   \* .swift
      <<".","k","t">>,   \* .kt
      <<".","s","c","a","l","a">>,   \* .scala
      <<".","p","h","p">>,   \* .php
      <<".","v","u","e">>,   \* .vue
      <<".","j","s","x">>,   \* .jsx
      <<".","t","s","x">> }   \* .tsx

SOURCE_ENTRY_POINTS ==
    << <<"m","a","i","n",".","p","y">>,   \* main.py
       <<"a","p","p",".","p","y">>,   \* app.py
       <<"s","e","r","v","e","r",".","p","y">>,   \* server.py
       <<"i","n","d","e","x",".","p","y">>,   \* index.py
       <<"m","a","i","n",".","j","s">>,   \* main.js
       <<"a","p","p",".","j","s">>,   \* app.js
       <<"s","e","r","v","e","r",".","j","s">>,   \* server.js
       <<"i","n","d","e","x",".","j","s">>,   \* index.js
       <<"m","a","i","n",".","t","s">>,   \* main.ts
       <<"a","p","p",".","t","s">>,   \* app.ts
       <<"s","e","r","v","e","r",".","t","s">>,   \* server.ts
       <<"i","n","d","e","x",".","t","s">>,   \* index.ts
       <<"m","a","i","n",".","g","o">>,   \* main.go
       <<"m","a","i","n",".","r","s">>,   \* main.rs
       <<"m","a","i","n",".","j","a","v","a">>,   \* main.java
       <<"m","a","i","n",".","r","b">>,   \* main.rb
       <<"a","p","p",".","r","b">> >>   \* app.rb

MAX_CONTENT_CHARS == 12000

MAX_SOURCE_FILE_CHARS == 3000

\* entries[:40] in collect_repo_content
MAX_DIRECTORY_ENTRIES == 40

(***************************************************************************)
(* Python str primitives                                                   *)
(***************************************************************************)
\* The characters the model uses, in increasing code point order
\* (str comparison in sorted() is by code point).
CodePoints ==
    <<"\t","\n"," ","\"","#","(",")",",","-",".","/","0","1","2","3","4","5","6","7","8","9",":","?","A","B","C","D","E","F","G","H","I","J","K","L","M","N","O","P","Q","R","S","T","U","V","W","X","Y","Z","[","]","_","BT","a","b","c","d","e","f","g","h","i","j","k","l","m","n","o","p","q","r","s","t","u","v","w","x","y","z","{","}">>

UPPERCASE ==
    <<"A","B","C","D","E","F","G","H","I","J","K","L","M","N","O","P","Q","R","S","T","U","V","W","X","Y","Z">>

LOWERCASE ==
    <<"a","b","c","d","e","f","g","h","i","j","k","l","m","n","o","p","q","r","s","t","u","v","w","x","y","z">>

Ord(c) == CHOOSE i \in 1..Len(CodePoints) : CodePoints[i] = c

\* what str.strip() removes and what \s matches
Whitespace == {" ", "\t", "\n"}

Min(a, b) == IF a <= b THEN a ELSE b

Max(a, b) == IF a >= b THEN a ELSE b

StartsWith(s, p) == Len(s) >= Len(p) /\ SubSeq(s, 1, Len(p)) = p

EndsWith(s, p) == Len(s) >= Len(p) /\ SubSeq(s, Len(s) - Len(p) + 1, Len(s)) = p

\* s[n:]
Drop(s, n) == SubSeq(s, n + 1, Len(s))

\* s[:n] for n >= 0
Take(s, n) == SubSeq(s, 1, Min(n, Len(s)))

\* length of the longest prefix of s made of characters outside Stop
RunLen(s, Stop) ==
    IF \E i \in 1..Len(s) : s[i] \in Stop
    THEN (CHOOSE i \in 1..Len(s) :
             s[i] \in Stop /\ \A j \in 1..(i - 1) : s[j] \notin Stop) - 1
    ELSE Len(s)

\* length of the longest prefix of s made of characters inside Keep
SpanLen(s, Keep) ==
    IF \E i \in 1..Len(s) : s[i] \notin Keep
    THEN (CHOOSE i \in 1..Len(s) :
             s[i] \notin Keep /\ \A j \in 1..(i - 1) : s[j] \in Keep) - 1
    ELSE Len(s)

\* length of the longest suffix of s made of characters inside Keep
TailSpanLen(s, Keep) ==
    IF \E i \in 1..Len(s) : s[i] \notin Keep
    THEN Len(s) - (CHOOSE i \in 1..Len(s) :
             s[i] \notin Keep /\ \A j \in (i + 1)..Len(s) : s[j] \in Keep)
    ELSE Len(s)

LStrip(s, Chars) == Drop(s, SpanLen(s, Chars))

RStrip(s, Chars) == Take(s, Len(s) - TailSpanLen(s, Chars))

\* str.strip()
Strip(s) == RStrip(LStrip(s, Whitespace), Whitespace)

\* str.lower() on the characters of the model
LowerChar(c) ==
    IF \E i \in 1..Len(UPPERCASE) : UPPERCASE[i] = c
    THEN LOWERCASE[CHOOSE i \in 1..Len(UPPERCASE) : UPPERCASE[i] = c]
    ELSE c

Lower(s) == [i \in 1..Len(s) |-> LowerChar(s[i])]

\* s < t for Python str: lexicographic by code point
StrLess(s, t) ==
    \E k \in 0..Min(Len(s), Len(t)) :
        /\ \A j \in 1..k : s[j] = t[j]
        /\ \/ k = Len(s) /\ k < Len(t)
           \/ k < Len(s) /\ k < Len(t) /\ Ord(s[k + 1]) < Ord(t[k + 1])

(***************************************************************************)
(* parse_github_url                                                        *)
(***************************************************************************)
HTTP == <<"h","t","t","p">>

GITHUB_HOST == <<":","/","/","g","i","t","h","u","b",".","c","o","m","/">>

DOT_GIT == <<".","g","i","t">>

\* re.match(r"https?://github\.com/([^/]+)/([^/?\s#]+)", u): anchored at the
\* start only.  Group 1 is the run up to the first "/", which must exist and
\* be preceded by at least one character; group 2 is the longest following
\* run free of "/", "?", "#" and whitespace, at least one character long.
MatchGithubUrl(u) ==
    LET noMatch == [ok |-> FALSE, g1 |-> <<>>, g2 |-> <<>>]
        afterHttp == Drop(u, Len(HTTP))
        afterS == IF StartsWith(afterHttp, <<"s">>) THEN Drop(afterHttp, 1)
                  ELSE afterHttp
        afterHost == Drop(afterS, Len(GITHUB_HOST))
        n1 == RunLen(afterHost, {"/"})
        afterOwner == Drop(afterHost, n1 + 1)
        n2 == RunLen(afterOwner, {"/", "?", "#"} \cup Whitespace)
    IN  IF ~StartsWith(u, HTTP) THEN noMatch
        ELSE IF ~StartsWith(afterS, GITHUB_HOST) THEN noMatch
        ELSE IF n1 = 0 \/ n1 >= Len(afterHost) THEN noMatch
        ELSE IF n2 = 0 THEN noMatch
        ELSE [ok |-> TRUE, g1 |-> Take(afterHost, n1), g2 |-> Take(afterOwner, n2)]

\* repo[:-4] when repo.endswith(".git")
StripDotGit(r) == IF EndsWith(r, DOT_GIT) THEN Take(r, Len(r) - 4) ELSE r

\* returns ok = FALSE where the code raises ValueError
parse_github_url(url) ==
    LET m == MatchGithubUrl(Strip(url))
    IN  IF ~m.ok THEN [ok |-> FALSE, owner |-> <<>>, repo |-> <<>>]
        ELSE [ok |-> TRUE, owner |-> m.g1,
              repo |-> StripDotGit(RStrip(m.g2, {"/"}))]

(***************************************************************************)
(* pick_source_files                                                       *)
(***************************************************************************)
\* index of the last occurrence of c in s, 0 when absent (str.rfind + 1)
RFind(s, c) ==
    IF \E i \in 1..Len(s) : s[i] = c
    THEN CHOOSE i \in 1..Len(s) : s[i] = c /\ \A j \in (i + 1)..Len(s) : s[j] # c
    ELSE 0

\* os.path.splitext(name)[1]: from the last dot of the base name, unless only
\* dots precede it there (a leading-dot name has no extension)
SplitExt(name) ==
    LET sepIndex == RFind(name, "/")
        dotIndex == RFind(name, ".")
    IN  IF dotIndex > sepIndex
           /\ \E k \in (sepIndex + 1)..(dotIndex - 1) : name[k] # "."
        THEN Drop(name, dotIndex - 1)
        ELSE <<>>

\* {e["name"] for e in entries if e["type"] == "file"}
FileNames(es) == {es[i].name : i \in {j \in 1..Len(es) : es[j].type = "file"}}

\* sorted(S) for a set of str
RECURSIVE Sorted(_)
Sorted(S) ==
    IF S = {} THEN <<>>
    ELSE LET m == CHOOSE x \in S : \A y \in S \ {x} : StrLess(x, y)
         IN  <<m>> \o Sorted(S \ {m})

\* for name in SOURCE_ENTRY_POINTS: append when present, break at two
RECURSIVE EntryPointLoop(_, _, _)
EntryPointLoop(i, acc, file_names) ==
    IF i > Len(SOURCE_ENTRY_POINTS) THEN acc
    ELSE LET name == SOURCE_ENTRY_POINTS[i]
             acc2 == IF name \in file_names THEN Append(acc, name) ELSE acc
         IN  IF Len(acc2) >= 2 THEN acc2
             ELSE EntryPointLoop(i + 1, acc2, file_names)

\* for name in sorted(file_names): append on a source extension, break at two
RECURSIVE ExtensionLoop(_, _, _)
ExtensionLoop(i, acc, names) ==
    IF i > Len(names) THEN acc
    ELSE LET ext == Lower(SplitExt(names[i]))
             acc2 == IF ext \in SOURCE_EXTENSIONS THEN Append(acc, names[i]) ELSE acc
         IN  IF Len(acc2) >= 2 THEN acc2
             ELSE ExtensionLoop(i + 1, acc2, names)

\* the extension tier runs whatever the entry-point tier found
pick_source_files_both_tiers(es) ==
    ExtensionLoop(1, EntryPointLoop(1, <<>>, FileNames(es)), Sorted(FileNames(es)))

pick_source_files(es) ==
    LET file_names == FileNames(es)
        byEntryPoint == EntryPointLoop(1, <<>>, file_names)
    IN  IF byEntryPoint = <<>>
        THEN ExtensionLoop(1, byEntryPoint, Sorted(file_names))
        ELSE byEntryPoint

(***************************************************************************)
(* build_context                                                           *)
(***************************************************************************)
DIR_TITLE ==
    <<"R","o","o","t"," ","d","i","r","e","c","t","o","r","y"," ","e","n","t","r","i","e","s",":","\n">>

DIR_INDENT == <<" ", " ">>

HEADER_OPEN == <<"\n","-","-","-"," ">>

HEADER_CLOSE == <<" ","-","-","-","\n">>

SOURCE_MARK ==
    <<" ","(","s","o","u","r","c","e"," ","s","a","m","p","l","e",")">>

\* f"\n--- {name} ---\n"
FileHeader(name) == HEADER_OPEN \o name \o HEADER_CLOSE

\* a source sample under the header of a manifest file
SourceHeaderUnmarked(name) == HEADER_OPEN \o name \o HEADER_CLOSE

\* f"\n--- {name} (source sample) ---\n"
SourceHeader(name) == HEADER_OPEN \o name \o SOURCE_MARK \o HEADER_CLOSE

RECURSIVE SumLens(_)
SumLens(ls) == IF ls = <<>> THEN 0 ELSE Head(ls) + SumLens(Tail(ls))

\* len(sep.join(items)) from the items' lengths
JoinLen(ls, sepLen) ==
    IF ls = <<>> THEN 0 ELSE SumLens(ls) + sepLen * (Len(ls) - 1)

\* len("Root directory entries:\n" + "\n".join(f"  {e}" for e in directory))
DirTextLen(dir) ==
    Len(DIR_TITLE) + JoinLen([i \in 1..Len(dir) |-> Len(DIR_INDENT \o dir[i])], 1)

HasKey(d, name) == \E i \in 1..Len(d) : d[i].name = name

Lookup(d, name) == d[CHOOSE i \in 1..Len(d) : d[i].name = name].content

\* ordered: the collected manifest files in PRIORITY_FILES order
RECURSIVE OrderedFrom(_, _)
OrderedFrom(i, fs) ==
    IF i > Len(PRIORITY_FILES) THEN <<>>
    ELSE (IF HasKey(fs, PRIORITY_FILES[i])
          THEN <<[name |-> PRIORITY_FILES[i], content |-> Lookup(fs, PRIORITY_FILES[i])]>>
          ELSE <<>>) \o OrderedFrom(i + 1, fs)

PartLen(p) == p.header + p.snippet

\* One of the two emit loops, from item i on.  st = [parts, budget].  Stops
\* (break) when the budget is spent or the header alone would not fit;
\* otherwise emits header + content[:available] and charges both.
RECURSIVE EmitLoop(_, _, _, _)
EmitLoop(items, i, st, kind) ==
    IF i > Len(items) THEN st
    ELSE IF st.budget <= 0 THEN st
    ELSE LET header == IF kind = "source" THEN SourceHeader(items[i].name)
                       ELSE FileHeader(items[i].name)
             available == st.budget - Len(header)
             snippet == Min(items[i].content, available)
         IN  IF available <= 0 THEN st
             ELSE EmitLoop(items, i + 1,
                    [parts |-> Append(st.parts,
                                 [kind |-> kind, name |-> items[i].name,
                                  header |-> Len(header), snippet |-> snippet,
                                  content |-> items[i].content]),
                     budget |-> st.budget - (Len(header) + snippet)],
                    kind)

\* data = [files, source_files, directory]; length = len("\n".join(parts))
build_context(data) ==
    LET dirLen == DirTextLen(data.directory)
        st0 == IF data.directory # <<>>
               THEN [parts |-> <<[kind |-> "directory", name |-> <<>>, header |-> 0,
                                  snippet |-> dirLen, content |-> dirLen]>>,
                     budget |-> MAX_CONTENT_CHARS - dirLen]
               ELSE [parts |-> <<>>, budget |-> MAX_CONTENT_CHARS]
        st1 == EmitLoop(OrderedFrom(1, data.files), 1, st0, "file")
        st2 == EmitLoop(data.source_files, 1, st1, "source")
    IN  [built |-> TRUE, parts |-> st2.parts, budget |-> st2.budget,
         length |-> JoinLen([i \in 1..Len(st2.parts) |-> PartLen(st2.parts[i])], 1)]

(***************************************************************************)
(* call_nebius: unwrapping the provider's text                             *)
(***************************************************************************)
FENCE == <<"BT", "BT", "BT">>

JSON_TAG == <<"j", "s", "o", "n">>

\* re.sub(r"^```", "", t): the optional json tag and the whitespace stay
StripLeadingFenceOnly(t) == IF StartsWith(t, FENCE) THEN Drop(t, Len(FENCE)) ELSE t

\* re.sub(r"^```(?:json)?\s*", "", t)
StripLeadingFence(t) ==
    IF ~StartsWith(t, FENCE) THEN t
    ELSE LET afterFence == Drop(t, Len(FENCE))
             afterTag == IF StartsWith(afterFence, JSON_TAG)
                         THEN Drop(afterFence, Len(JSON_TAG))
                         ELSE afterFence
         IN  LStrip(afterTag, Whitespace)

\* re.sub(r"\s*```$", "", t): $ matches at the end and before a final newline
StripTrailingFence(t) ==
    IF EndsWith(t, FENCE)
    THEN RStrip(Take(t, Len(t) - Len(FENCE)), Whitespace)
    ELSE IF EndsWith(t, FENCE \o <<"\n">>)
    THEN RStrip(Take(t, Len(t) - Len(FENCE) - 1), Whitespace) \o <<"\n">>
    ELSE t

\* the two substitutions, in the order of the code
StripFences(t) == StripTrailingFence(StripLeadingFence(t))

(***************************************************************************)
(* json.loads, for the JSON made of objects, arrays, strings without       *)
(* escapes and unsigned integers.  The parsed value is carried as its      *)
(* whitespace-free rendering (canon), its kind and, for an object, its     *)
(* keys: two texts parse to the same value when these agree.               *)
(***************************************************************************)
JSON_WS == {" ", "\t", "\n"}

DIGITS == {"0", "1", "2", "3", "4", "5", "6", "7", "8", "9"}

ParseFail == [ok |-> FALSE, p |-> 0, kind |-> "none", keys |-> {}, canon |-> <<>>]

\* first position at or after p holding no JSON whitespace
SkipWs(s, p) == p + SpanLen(Drop(s, p - 1), JSON_WS)

At(s, p) == IF p >= 1 /\ p <= Len(s) THEN s[p] ELSE "EOF"

ParseString(s, p) ==
    IF At(s, p) # "\"" THEN ParseFail
    ELSE LET n == RunLen(Drop(s, p), {"\""})
             q == p + n + 1
         IN  IF q > Len(s) THEN ParseFail
             ELSE [ok |-> TRUE, p |-> q + 1, kind |-> "string", keys |-> {},
                   canon |-> SubSeq(s, p, q)]

ParseNumber(s, p) ==
    LET n == SpanLen(Drop(s, p - 1), DIGITS)
    IN  IF n = 0 THEN ParseFail
        ELSE [ok |-> TRUE, p |-> p + n, kind |-> "number", keys |-> {},
              canon |-> SubSeq(s, p, p + n - 1)]

RECURSIVE ParseValue(_, _)
RECURSIVE ParseMembers(_, _, _, _)
RECURSIVE ParseElements(_, _, _)

\* members of an object, from the key at p; keys and canon accumulate
ParseMembers(s, p, keys, canon) ==
    LET k == ParseString(s, p)
        pColon == SkipWs(s, k.p)
        v == ParseValue(s, SkipWs(s, pColon + 1))
        pNext == SkipWs(s, v.p)
        canon2 == canon \o k.canon \o <<":">> \o v.canon
        keys2 == keys \cup {SubSeq(k.canon, 2, Len(k.canon) - 1)}
    IN  IF ~k.ok THEN ParseFail
        ELSE IF At(s, pColon) # ":" THEN ParseFail
        ELSE IF ~v.ok THEN ParseFail
        ELSE IF At(s, pNext) = ","
             THEN ParseMembers(s, SkipWs(s, pNext + 1), keys2, canon2 \o <<",">>)
        ELSE IF At(s, pNext) = "}"
             THEN [ok |-> TRUE, p |-> pNext + 1, kind |-> "object", keys |-> keys2,
                   canon |-> canon2 \o <<"}">>]
        ELSE ParseFail

\* elements of an array, from the value at p
ParseElements(s, p, canon) ==
    LET v == ParseValue(s, p)
        pNext == SkipWs(s, v.p)
        canon2 == canon \o v.canon
    IN  IF ~v.ok THEN ParseFail
        ELSE IF At(s, pNext) = ","
             THEN ParseElements(s, SkipWs(s, pNext + 1), canon2 \o <<",">>)
        ELSE IF At(s, pNext) = "]"
             THEN [ok |-> TRUE, p |-> pNext + 1, kind |-> "array", keys |-> {},
                   canon |-> canon2 \o <<"]">>]
        ELSE ParseFail

ParseValue(s, p) ==
    LET c == At(s, p)
        pIn == SkipWs(s, p + 1)
    IN  IF c = "{"
        THEN IF At(s, pIn) = "}"
             THEN [ok |-> TRUE, p |-> pIn + 1, kind |-> "object", keys |-> {},
                   canon |-> <<"{", "}">>]
             ELSE ParseMembers(s, pIn, {}, <<"{">>)
        ELSE IF c = "["
        THEN IF At(s, pIn) = "]"
             THEN [ok |-> TRUE, p |-> pIn + 1, kind |-> "array", keys |-> {},
                   canon |-> <<"[", "]">>]
             ELSE ParseElements(s, pIn, <<"[">>)
        ELSE IF c = "\"" THEN ParseString(s, p)
        ELSE ParseNumber(s, p)

\* ok = FALSE where json.loads raises JSONDecodeError (no value, or extra data)
json_loads(text) ==
    LET v == ParseValue(text, SkipWs(text, 1))
    IN  IF v.ok /\ SkipWs(text, v.p) = Len(text) + 1
        THEN [ok |-> TRUE, kind |-> v.kind, keys |-> v.keys, canon |-> v.canon]
        ELSE [ok |-> FALSE, kind |-> "none", keys |-> {}, canon |-> <<>>]

\* lines 264-270 of call_nebius: strip, remove fences, parse
unwrap_response(content) == json_loads(StripFences(Strip(content)))

(***************************************************************************)
(* Repository fetches (fetch_repo_metadata, fetch_raw_file).  Each takes   *)
(* what the HTTP call did: "ok" (status 200, usable body), "status" (any   *)
(* other status), "transport" (httpx.RequestError, timeouts included),     *)
(* "not_json" (200, body that is not JSON), "unusable" (200, JSON of the   *)
(* wrong shape).  raises names the exception that leaves the function.     *)
(***************************************************************************)
MAIN == <<"m","a","i","n">>

\* step 1 of fetch_repo_metadata; served = default_branch of the body
ResolveBranch(outcome, served) ==
    IF outcome = "ok" THEN [raises |-> "none", value |-> served]
    ELSE IF outcome = "no_key" THEN [raises |-> "none", value |-> MAIN]
    ELSE IF outcome = "not_json" THEN [raises |-> "JSONDecodeError", value |-> MAIN]
    ELSE IF outcome = "unusable" THEN [raises |-> "AttributeError", value |-> MAIN]
    ELSE [raises |-> "none", value |-> MAIN]

\* step 2 of fetch_repo_metadata; served = the root listing of the body
ListRoot(outcome, served) ==
    IF outcome = "ok" THEN [raises |-> "none", value |-> served]
    ELSE IF outcome = "unusable" THEN [raises |-> "KeyError", value |-> <<>>]
    ELSE [raises |-> "none", value |-> <<>>]

\* a variant in which the transport failure is not caught
fetch_raw_file_uncaught(outcome, text) ==
    IF outcome = "ok" THEN [raises |-> "none", found |-> TRUE, text |-> text]
    ELSE IF outcome = "transport" THEN [raises |-> "RequestError", found |-> FALSE, text |-> 0]
    ELSE [raises |-> "none", found |-> FALSE, text |-> 0]

\* found = FALSE is the None result
fetch_raw_file(outcome, text) ==
    IF outcome = "ok" THEN [raises |-> "none", found |-> TRUE, text |-> text]
    ELSE [raises |-> "none", found |-> FALSE, text |-> 0]

\* `if content:` - a fetched, non-empty text
Truthy(r) == r.found /\ r.text > 0

\* a variant that reports not-found as soon as one collection is empty
IsEmptyRepoAny(data) ==
    data.files = <<>> \/ data.directory = <<>> \/ data.source_files = <<>>

\* not data["files"] and not data["directory"] and not data["source_files"]
IsEmptyRepo(data) ==
    data.files = <<>> /\ data.directory = <<>> /\ data.source_files = <<>>

(***************************************************************************)
(* Python exception classes met in summarize, and its except clauses       *)
(***************************************************************************)
\* EnvironmentError is an alias of OSError
EnvironmentError == "OSError"

ExcParent(cls) ==
    CASE cls = "PermissionError" -> "OSError"
      [] cls = "ConnectionError" -> "OSError"
      [] cls = "OSError" -> "Exception"
      [] cls = "JSONDecodeError" -> "ValueError"
      [] cls = "ValueError" -> "Exception"
      [] cls = "RuntimeError" -> "Exception"
      [] cls = "AttributeError" -> "Exception"
      [] cls = "KeyError" -> "Exception"
      [] cls = "RequestError" -> "Exception"
      [] OTHER -> "BaseException"

RECURSIVE IsInstance(_, _)
IsInstance(cls, base) ==
    IF cls = base THEN TRUE
    ELSE IF cls = "BaseException" THEN FALSE
    ELSE IsInstance(ExcParent(cls), base)

\* the except clauses around call_nebius, in source order
EXCEPT_CLAUSES ==
    << [classes |-> {EnvironmentError}, status |-> 500, message |-> "str(e)"],
       [classes |-> {"PermissionError"}, status |-> 401, message |-> "str(e)"],
       [classes |-> {"ConnectionError", "RuntimeError"}, status |-> 502, message |-> "str(e)"],
       [classes |-> {"JSONDecodeError"}, status |-> 502,
        message |-> "LLM returned invalid JSON."] >>

Catches(k, cls) == \E base \in EXCEPT_CLAUSES[k].classes : IsInstance(cls, base)

\* index of the first clause that catches cls, 0 when none does
FirstCatch(cls) ==
    IF \E k \in 1..Len(EXCEPT_CLAUSES) : Catches(k, cls)
    THEN CHOOSE k \in 1..Len(EXCEPT_CLAUSES) :
            Catches(k, cls) /\ \A j \in 1..(k - 1) : ~Catches(j, cls)
    ELSE 0

KEY_SUMMARY == <<"s","u","m","m","a","r","y">>

KEY_TECHNOLOGIES == <<"t","e","c","h","n","o","l","o","g","i","e","s">>

KEY_STRUCTURE == <<"s","t","r","u","c","t","u","r","e">>

\* the fields result.get(...) fills with its default
Defaulted(res) ==
    {f \in {KEY_SUMMARY, KEY_TECHNOLOGIES, KEY_STRUCTURE} : f \notin res.keys}

(***************************************************************************)
(* Idle values                                                             *)
(***************************************************************************)
NoRemote == [branch |-> <<>>, listing |-> <<>>, texts |-> <<>>]

NoFetch == [what |-> "none", path |-> <<>>, outcome |-> "none"]

NoContext == [built |-> FALSE, parts |-> <<>>, budget |-> 0, length |-> 0]

NoProvider == [outcome |-> "none", has_content |-> FALSE, content |-> <<>>]

NoRaise == [type |-> "none", message |-> "none"]

NoResult == [ok |-> FALSE, kind |-> "none", keys |-> {}, canon |-> <<>>]

NoResponse == [status |-> 0, body |-> "none", message |-> "none", defaulted |-> {}]

ErrorResponse(status, message) ==
    [status |-> status, body |-> "error", message |-> message, defaulted |-> {}]

(***************************************************************************)
(* The environment of one request                                          *)
(***************************************************************************)
File(name) == [name |-> name, type |-> "file"]

Dir(name) == [name |-> name, type |-> "dir"]

Text(name, n) == [name |-> name, content |-> n]

README_MD == PRIORITY_FILES[1]

GO_MOD == PRIORITY_FILES[8]

SETUP_PY == PRIORITY_FILES[9]

\* The repositories a request may name: branch, root listing, and the root
\* files with the length of their text.
Remotes ==
    { \* nothing to serve
      [branch |-> MAIN, listing |-> <<>>, texts |-> <<>>],
      \* a README and an entry point longer than the per-file cap
      [branch |-> <<"d","e","v">>,
       listing |-> <<File(README_MD), Dir(<<"s","r","c">>), File(<<"m","a","i","n",".","p","y">>)>>,
       texts |-> <<Text(README_MD, 500), Text(<<"m","a","i","n",".","p","y">>, 5000)>>],
      \* no manifest; two files with source extensions, one of them empty
      [branch |-> MAIN,
       listing |-> <<File(<<"B",".","p","y">>), File(<<"a",".","c">>), Dir(<<"d","o","c","s">>)>>,
       texts |-> <<Text(<<"B",".","p","y">>, 0), Text(<<"a",".","c">>, 10)>>],
      \* manifests that exhaust the budget
      [branch |-> MAIN,
       listing |-> <<File(README_MD), File(GO_MOD), File(SETUP_PY), File(<<"a","p","p",".","p","y">>)>>,
       texts |-> <<Text(README_MD, 11970), Text(GO_MOD, 20), Text(SETUP_PY, 30000),
                   Text(<<"a","p","p",".","p","y">>, 100)>>],
      \* more root entries than the directory keeps
      [branch |-> MAIN,
       listing |-> [i \in 1..(MAX_DIRECTORY_ENTRIES + 1) |-> Dir([j \in 1..i |-> "x"])],
       texts |-> <<>>] }

RequestUrls ==
    { <<"h","t","t","p","s",":","/","/","g","i","t","h","u","b",".","c","o","m","/","o","/","r">>, <<"h","t","t","p","s",":","/","/","g","i","t","h","u","b",".","c","o","m","/","o","/","r",".","g","i","t">>, <<"g","i","t","h","u","b",".","c","o","m","/","o","/","r">> }

\* message.content of a completion: None, or one of these texts
Completions ==
    { <<"BT","BT","BT","j","s","o","n","\n","{","\"","s","u","m","m","a","r","y","\"",":","\"","x","\"",",","\"","t","e","c","h","n","o","l","o","g","i","e","s","\"",":","[","\"","G","o","\"","]",",","\"","s","t","r","u","c","t","u","r","e","\"",":","\"","y","\"","}","\n","BT","BT","BT">>,
      <<"{","\"","s","u","m","m","a","r","y","\"",":","\"","x","\"","}">>,
      <<"S","u","r","e","!"," ","H","e","r","e"," ","i","s"," ","t","h","e"," ","s","u","m","m","a","r","y">>,
      <<"[","\"","G","o","\"","]">> }

ProviderOutcomes ==
    {[outcome |-> o, has_content |-> FALSE, content |-> <<>>] :
        o \in {"AuthenticationError", "APIConnectionError", "APIStatusError", "completion"}}
    \cup {[outcome |-> "completion", has_content |-> TRUE, content |-> c] : c \in Completions}

(***************************************************************************)
(* summarize, one action per stage                                         *)
(***************************************************************************)
Init ==
    /\ pc = "parse"
    /\ github_url \in RequestUrls
    /\ api_key \in BOOLEAN
    /\ remote \in Remotes
    /\ owner = <<>> /\ repo = <<>>
    /\ default_branch = MAIN
    /\ entries = <<>>
    /\ idx = 0
    /\ files = <<>> /\ source_files = <<>> /\ directory = <<>>
    /\ chosen = <<>>
    /\ last_fetch = NoFetch
    /\ context = NoContext
    /\ provider = NoProvider
    /\ raised = NoRaise
    /\ result = NoResult
    /\ response = NoResponse

\* lines 275-278
ParseUrl ==
    /\ pc = "parse"
    /\ LET r == parse_github_url(github_url)
       IN  IF r.ok
           THEN /\ owner' = r.owner /\ repo' = r.repo
                /\ pc' = "branch"
                /\ UNCHANGED response
           ELSE /\ response' = ErrorResponse(400, "Invalid GitHub URL...")
                /\ pc' = "done"
                /\ UNCHANGED <<owner, repo>>
    /\ UNCHANGED <<github_url, api_key, remote, default_branch, entries, idx, files,
                   source_files, directory, chosen, last_fetch, context, provider,
                   raised, result>>

\* `except Exception` around collect_repo_content, lines 282-283
FetchFailed(exc) ==
    /\ raised' = [type |-> exc, message |-> "fetch"]
    /\ response' = ErrorResponse(502, "Failed to fetch repository")
    /\ pc' = "done"

\* fetch_repo_metadata step 1, lines 84-95
FetchBranch ==
    /\ pc = "branch"
    /\ \E outcome \in {"ok", "no_key", "status", "transport", "not_json", "unusable"} :
         LET r == ResolveBranch(outcome, remote.branch)
         IN  /\ last_fetch' = [what |-> "branch", path |-> <<>>, outcome |-> outcome]
             /\ IF r.raises # "none"
                THEN FetchFailed(r.raises) /\ UNCHANGED default_branch
                ELSE /\ default_branch' = r.value
                     /\ pc' = "listing"
                     /\ UNCHANGED <<raised, response>>
    /\ UNCHANGED <<github_url, owner, repo, api_key, remote, entries, idx, files,
                   source_files, directory, chosen, context, provider, result>>

\* fetch_repo_metadata step 2, lines 98-112
FetchListing ==
    /\ pc = "listing"
    /\ \E outcome \in {"ok", "status", "transport", "not_json", "unusable"} :
         LET r == ListRoot(outcome, remote.listing)
         IN  /\ last_fetch' = [what |-> "listing", path |-> <<>>, outcome |-> outcome]
             /\ IF r.raises # "none"
                THEN FetchFailed(r.raises) /\ UNCHANGED <<entries, idx>>
                ELSE /\ entries' = r.value
                     /\ idx' = 1
                     /\ pc' = "manifest"
                     /\ UNCHANGED <<raised, response>>
    /\ UNCHANGED <<github_url, owner, repo, api_key, remote, default_branch, files,
                   source_files, directory, chosen, context, provider, result>>

\* [e["name"] for e in entries[:40]], line 171
DirectoryOf(es) ==
    [i \in 1..Min(Len(es), MAX_DIRECTORY_ENTRIES) |-> es[i].name]

\* what GitHub can answer to a raw fetch of path
RawOutcomes(path) ==
    (IF HasKey(remote.texts, path) THEN {"ok"} ELSE {}) \cup {"status", "transport"}

RawText(path) == IF HasKey(remote.texts, path) THEN Lookup(remote.texts, path) ELSE 0

\* one iteration of the loop over PRIORITY_FILES, lines 157-160
FetchManifest ==
    /\ pc = "manifest"
    /\ idx <= Len(PRIORITY_FILES)
    /\ \E outcome \in RawOutcomes(PRIORITY_FILES[idx]) :
         LET filename == PRIORITY_FILES[idx]
             r == fetch_raw_file(outcome, RawText(filename))
         IN  /\ last_fetch' = [what |-> "file", path |-> filename, outcome |-> outcome]
             /\ IF r.raises # "none"
                THEN FetchFailed(r.raises) /\ UNCHANGED <<files, idx>>
                ELSE /\ files' = IF Truthy(r) THEN Append(files, Text(filename, r.text))
                                 ELSE files
                     /\ idx' = idx + 1
                     /\ pc' = IF idx = Len(PRIORITY_FILES) THEN "pick" ELSE "manifest"
                     /\ UNCHANGED <<raised, response>>
    /\ UNCHANGED <<github_url, owner, repo, api_key, remote, default_branch, entries,
                   source_files, directory, chosen, context, provider, result>>

\* pick_source_files(entries), line 163; with nothing chosen the loop body
\* never runs and collect_repo_content returns (lines 168-172)
PickSources ==
    /\ pc = "pick"
    /\ chosen' = pick_source_files(entries)
    /\ idx' = 1
    /\ IF chosen' = <<>>
       THEN directory' = DirectoryOf(entries) /\ pc' = "check"
       ELSE UNCHANGED directory /\ pc' = "source"
    /\ UNCHANGED <<github_url, owner, repo, api_key, remote, default_branch, entries,
                   files, source_files, last_fetch, context, provider, raised,
                   result, response>>

\* one iteration of the loop over the chosen paths, lines 163-166; after the
\* last one collect_repo_content returns (lines 168-172)
FetchSource ==
    /\ pc = "source"
    /\ idx <= Len(chosen)
    /\ \E outcome \in RawOutcomes(chosen[idx]) :
         LET path == chosen[idx]
             r == fetch_raw_file(outcome, RawText(path))
         IN  /\ last_fetch' = [what |-> "source", path |-> path, outcome |-> outcome]
             /\ IF r.raises # "none"
                THEN FetchFailed(r.raises) /\ UNCHANGED <<source_files, idx, directory>>
                ELSE /\ source_files' =
                          IF Truthy(r)
                          THEN Append(source_files,
                                      Text(path, Min(r.text, MAX_SOURCE_FILE_CHARS)))
                          ELSE source_files
                     /\ idx' = idx + 1
                     /\ IF idx = Len(chosen)
                        THEN directory' = DirectoryOf(entries) /\ pc' = "check"
                        ELSE UNCHANGED directory /\ pc' = "source"
                     /\ UNCHANGED <<raised, response>>
    /\ UNCHANGED <<github_url, owner, repo, api_key, remote, default_branch, entries,
                   files, chosen, context, provider, result>>

\* lines 285-291: the emptiness check, then build_context
CheckAndBuild ==
    /\ pc = "check"
    /\ LET data == [files |-> files, source_files |-> source_files,
                    directory |-> directory]
       IN  IF IsEmptyRepo(data)
           THEN /\ response' = ErrorResponse(404, "Repository not found or is empty.")
                /\ pc' = "done"
                /\ UNCHANGED context
           ELSE /\ context' = build_context(data)
                /\ pc' = "call"
                /\ UNCHANGED response
    /\ UNCHANGED <<github_url, owner, repo, api_key, remote, default_branch, entries,
                   idx, files, source_files, directory, chosen, last_fetch, provider,
                   raised, result>>

\* call_nebius up to the provider's answer, lines 220-262: the credential
\* check, the request, and the translation of the client's exceptions
CallProvider ==
    /\ pc = "call"
    /\ IF ~api_key
       THEN /\ provider' = [NoProvider EXCEPT !.outcome = "not_contacted"]
            /\ raised' = [type |-> EnvironmentError,
                          message |-> "NEBIUS_API_KEY environment variable is not set."]
            /\ pc' = "respond"
       ELSE \E p \in ProviderOutcomes :
              /\ provider' = p
              /\ IF p.outcome = "AuthenticationError"
                 THEN /\ raised' = [type |-> "PermissionError",
                                    message |-> "Invalid NEBIUS_API_KEY."]
                      /\ pc' = "respond"
                 ELSE IF p.outcome = "APIConnectionError"
                 THEN /\ raised' = [type |-> "ConnectionError",
                                    message |-> "Failed to reach Nebius API"]
                      /\ pc' = "respond"
                 ELSE IF p.outcome = "APIStatusError"
                 THEN /\ raised' = [type |-> "RuntimeError",
                                    message |-> "Nebius API returned status"]
                      /\ pc' = "respond"
                 ELSE UNCHANGED raised /\ pc' = "unwrap"
    /\ UNCHANGED <<github_url, owner, repo, api_key, remote, default_branch, entries,
                   idx, files, source_files, directory, chosen, last_fetch, context,
                   result, response>>

\* the rest of call_nebius, lines 264-270: strip the completion's text,
\* remove the code fences, parse; None has no strip()
UnwrapCompletion ==
    /\ pc = "unwrap"
    /\ IF ~provider.has_content
       THEN /\ raised' = [type |-> "AttributeError", message |-> "NoneType"]
            /\ UNCHANGED result
       ELSE LET r == unwrap_response(provider.content)
            IN  IF r.ok
                THEN result' = r /\ UNCHANGED raised
                ELSE /\ raised' = [type |-> "JSONDecodeError", message |-> "json"]
                     /\ UNCHANGED result
    /\ pc' = "respond"
    /\ UNCHANGED <<github_url, owner, repo, api_key, remote, default_branch, entries,
                   idx, files, source_files, directory, chosen, last_fetch, context,
                   provider, response>>

\* lines 293-308: the first except clause that catches the exception answers;
\* an exception no clause catches, and the AttributeError of result.get on a
\* value that is no dict, leave summarize
Respond ==
    /\ pc = "respond"
    /\ IF raised.type # "none"
       THEN LET k == FirstCatch(raised.type)
            IN  IF k = 0
                THEN pc' = "crashed" /\ UNCHANGED <<response, raised>>
                ELSE /\ response' =
                          ErrorResponse(EXCEPT_CLAUSES[k].status,
                                        IF EXCEPT_CLAUSES[k].message = "str(e)"
                                        THEN raised.message
                                        ELSE EXCEPT_CLAUSES[k].message)
                     /\ pc' = "done"
                     /\ UNCHANGED raised
       ELSE IF result.kind # "object"
            THEN /\ raised' = [type |-> "AttributeError", message |-> "get"]
                 /\ pc' = "crashed"
                 /\ UNCHANGED response
            ELSE /\ response' = [status |-> 200, body |-> "summary", message |-> "none",
                                 defaulted |-> Defaulted(result)]
                 /\ pc' = "done"
                 /\ UNCHANGED raised
    /\ UNCHANGED <<github_url, owner, repo, api_key, remote, default_branch, entries,
                   idx, files, source_files, directory, chosen, last_fetch, context,
                   provider, result>>

Next ==
    \/ ParseUrl
    \/ FetchBranch
    \/ FetchListing
    \/ FetchManifest
    \/ PickSources
    \/ FetchSource
    \/ CheckAndBuild
    \/ CallProvider
    \/ UnwrapCompletion
    \/ Respond

Spec == Init /\ [][Next]_vars

(***************************************************************************)
(* Properties of summarize (specification Spec)                            *)
(***************************************************************************)
FETCH_FAILED == "Failed to fetch repository"

\* the fetch outcomes the sampling stage degrades on
Degraded == {"status", "transport"}

\* C1: when the completion provider rejects the credential, summarize answers
\* 401 with the auth-failure message.
C1_AuthFailureAnswers401 ==
    (pc = "done" /\ provider.outcome = "AuthenticationError")
        => /\ response.status = 401
           /\ response.body = "error"
           /\ response.message = "Invalid NEBIUS_API_KEY."

\* C2: for a request that reached the completion call and whose credential
\* the provider did not reject: a transport failure, a non-success provider
\* status and unparseable provider text all answer 502, and 500 is answered
\* only when the credential is not configured.
C2_ProviderFailuresAnswer502 ==
    (pc = "done" /\ provider.outcome \notin {"none", "AuthenticationError"})
        => /\ provider.outcome \in {"APIConnectionError", "APIStatusError"}
                => response.status = 502
           /\ raised.type = "JSONDecodeError" => response.status = 502
           /\ response.status = 500 => ~api_key

\* C4: once sampling has completed, the answer is 404 exactly when the
\* manifest files, the source samples and the directory are all empty; then
\* no context is built and the provider is not called; otherwise the context
\* is built and the handler goes on to the completion call.
PastCheck ==
    \/ pc \in {"call", "unwrap", "respond", "crashed"}
    \/ pc = "done" /\ response.status # 400 /\ response.message # FETCH_FAILED

C4_NotFoundIffAllEmpty ==
    PastCheck =>
        LET empty == files = <<>> /\ source_files = <<>> /\ directory = <<>>
        IN  /\ response.status = 404 <=> empty
            /\ empty => pc = "done" /\ ~context.built /\ provider.outcome = "none"
            /\ ~empty => /\ context.built
                         /\ pc # "call" => provider.outcome # "none"

C4_Witness ==
    /\ pc = "done" /\ response.status = 404
    /\ files = <<>> /\ source_files = <<>> /\ directory = <<>>
    /\ ~context.built /\ provider.outcome = "none"

\* C5: the handler ends with a 200 summary or with an error envelope whose
\* status is 400, 401, 404, 500 or 502; no exception leaves summarize.
C5_AlwaysAnEnvelope ==
    /\ pc # "crashed"
    /\ pc = "done" =>
          \/ response.status = 200 /\ response.body = "summary"
          \/ response.body = "error" /\ response.status \in {400, 401, 404, 500, 502}

\* C7: a repository fetch that fails in transport or answers a non-success
\* status does not fail the sampling stage: the branch falls back to "main",
\* the listing becomes empty, the file is absent from what was collected, the
\* next fetch follows, and the handler never answers the fetch failure.
C7_FetchFailuresDegrade ==
    last_fetch.outcome \in Degraded =>
        /\ response.message # FETCH_FAILED
        /\ last_fetch.what = "branch" => pc = "listing" /\ default_branch = MAIN
        /\ last_fetch.what = "listing" => pc = "manifest" /\ idx = 1 /\ entries = <<>>
        /\ last_fetch.what = "file" =>
              /\ ~HasKey(files, last_fetch.path)
              /\ pc = "manifest" => PRIORITY_FILES[idx - 1] = last_fetch.path
        /\ last_fetch.what = "source" =>
              /\ ~HasKey(source_files, last_fetch.path)
              /\ pc = "source" => chosen[idx - 1] = last_fetch.path
        /\ response.body = "error" /\ response.status \notin {401, 500, 502}
              => /\ response.status = 404
                 /\ files = <<>> /\ source_files = <<>> /\ directory = <<>>

\* a source fetch failed in transport and the request was still summarised
C7_Witness ==
    /\ pc = "done" /\ response.status = 200
    /\ last_fetch.what = "source" /\ last_fetch.outcome = "transport"
    /\ files # <<>>

(***************************************************************************)
(* Bounds of the input sets                                                *)
(***************************************************************************)
\* whitespace characters put before or after an input text
MaxPad == 1

\* manifest files present in an input RepoContent
MaxManifests == 2

\* entries in an input root listing
MaxEntries == 3

\* the whitespace runs of at most MaxPad characters
RECURSIVE PadsOf(_)
PadsOf(n) ==
    IF n = 0 THEN {<<>>}
    ELSE PadsOf(n - 1) \cup {Append(q, c) : q \in PadsOf(n - 1), c \in {" ", "\n"}}

Pads == PadsOf(MaxPad)

\* every variable the function under study does not touch
IdleExcept(keep) ==
    /\ "github_url" \in keep \/ github_url = <<>>
    /\ owner = <<>> /\ repo = <<>>
    /\ api_key = TRUE
    /\ remote = NoRemote
    /\ default_branch = MAIN
    /\ "entries" \in keep \/ entries = <<>>
    /\ idx = 0
    /\ "data" \in keep \/ (files = <<>> /\ source_files = <<>> /\ directory = <<>>)
    /\ chosen = <<>>
    /\ last_fetch = NoFetch
    /\ context = NoContext
    /\ "provider" \in keep \/ provider = NoProvider
    /\ raised = NoRaise
    /\ result = NoResult
    /\ response = NoResponse

(***************************************************************************)
(* parse_github_url on its own (specification SpecParse)                   *)
(***************************************************************************)
Schemes == { <<"h","t","t","p","s",":","/","/">>, <<"h","t","t","p",":","/","/">>, <<"f","t","p",":","/","/">> }

Hosts == { <<"g","i","t","h","u","b",".","c","o","m","/">>, <<"g","i","t","l","a","b",".","c","o","m","/">> }

OwnerNames == { <<"o">>, <<"m","y","-","o","r","g">> }

RepoNames == { <<"r">>, <<"m","y",".","r","e","p","o">> }

\* optional .git suffix, trailing slash, query string or fragment
UrlTails ==
    {g \o sl \o q : g \in {<<>>, DOT_GIT}, sl \in {<<>>, <<"/">>},
                    q \in {<<>>, <<"?","t","a","b","=","x">>, <<"#","r","e","a","d","m","e">>}}

UrlForm(scheme, host, o, r, tail) == scheme \o host \o o \o <<"/">> \o r \o tail

UrlInputs ==
    {a \o UrlForm(s, h, o, r, t) \o b :
        a \in Pads, b \in Pads, s \in Schemes, h \in Hosts,
        o \in OwnerNames \cup {<<>>},
        r \in RepoNames \cup {<<>>, <<"r",".","g","i","t">>},
        t \in UrlTails}

InitParse ==
    /\ pc = "parse"
    /\ github_url \in UrlInputs
    /\ IdleExcept({"github_url"})

SpecParse == InitParse /\ [][ParseUrl]_vars

\* C8: an accepted URL yields a non-empty owner and a non-empty repo that
\* ends with neither "/" nor ".git"; and https://github.com/OWNER/REPO with
\* an optional .git suffix, trailing slash, query string or fragment yields
\* exactly (OWNER, REPO).
C8_AcceptedRepoWellFormed ==
    pc = "branch" =>
        /\ owner # <<>> /\ repo # <<>>
        /\ ~EndsWith(repo, <<"/">>) /\ ~EndsWith(repo, DOT_GIT)
        /\ \A o \in OwnerNames, r \in RepoNames, t \in UrlTails :
              github_url = UrlForm(<<"h","t","t","p","s",":","/","/">>, <<"g","i","t","h","u","b",".","c","o","m","/">>, o, r, t)
                  => owner = o /\ repo = r

\* the second half of C8 alone
C8_FormExtractsExactly ==
    pc = "branch" =>
        \A o \in OwnerNames, r \in RepoNames, t \in UrlTails :
            github_url = UrlForm(<<"h","t","t","p","s",":","/","/">>, <<"g","i","t","h","u","b",".","c","o","m","/">>, o, r, t)
                => owner = o /\ repo = r

(***************************************************************************)
(* build_context on its own (specification SpecContext)                   *)
(***************************************************************************)
\* lengths of a manifest text: tiny; leaving, after the first file, less
\* budget than a manifest header takes (14 to 24 characters) or just enough
\* for a source header and a few characters (34 to 44); larger than the
\* whole budget
ManifestLens ==
    {1, MAX_CONTENT_CHARS - 60, MAX_CONTENT_CHARS - 40, 2 * MAX_CONTENT_CHARS}

SourceLens == {1, MAX_SOURCE_FILE_CHARS}

\* the sequence, in index order, of the PRIORITY_FILES picked by S with the
\* lengths len gives them
RECURSIVE ManifestSeq(_, _, _)
ManifestSeq(i, S, len) ==
    IF i > Len(PRIORITY_FILES) THEN <<>>
    ELSE (IF i \in S THEN <<Text(PRIORITY_FILES[i], len[i])>> ELSE <<>>)
         \o ManifestSeq(i + 1, S, len)

ManifestInputs ==
    UNION {{ManifestSeq(1, S, len) : len \in [S -> ManifestLens]} :
              S \in {T \in SUBSET (1..Len(PRIORITY_FILES)) : Cardinality(T) <= MaxManifests}}

\* a.c is the shortest name pick_source_files can choose
SourceNames == { <<"a",".","c">>, <<"m","a","i","n",".","p","y">> }

SourceInputs ==
    {<<>>}
    \cup {<<Text(n, l)>> : n \in SourceNames, l \in SourceLens}
    \cup {<<Text(nm[1], l), Text(nm[2], l)>> :
             nm \in {x \in SourceNames \X SourceNames : x[1] # x[2]},
             l \in SourceLens}

\* none; one name of one character; forty names longer than the budget
DirectoryInputs ==
    { <<>>,
      <<<<"a">>>>,
      [i \in 1..MAX_DIRECTORY_ENTRIES |-> [j \in 1..(300 + i) |-> "x"]] }

InitContext ==
    /\ pc = "check"
    /\ files \in ManifestInputs
    /\ source_files \in SourceInputs
    /\ directory \in DirectoryInputs
    /\ IdleExcept({"data"})

SpecContext == InitContext /\ [][CheckAndBuild]_vars

\* C3: the length of the context, separators included, is at most the
\* budget plus the length of the directory block, and at most the budget
\* when the directory is empty.
C3_LengthWithinBudget ==
    context.built =>
        context.length <= MAX_CONTENT_CHARS
                          + (IF directory = <<>> THEN 0 ELSE DirTextLen(directory))

\* what holds instead: every separator of the join adds one character
C3_LengthWithinBudgetPlusSeparators ==
    context.built =>
        context.length <= Max(MAX_CONTENT_CHARS, DirTextLen(directory))
                          + Len(context.parts) - 1

PriorityIndex(name) == CHOOSE i \in 1..Len(PRIORITY_FILES) : PRIORITY_FILES[i] = name

Emitted == SelectSeq(context.parts, LAMBDA p : p.kind # "directory")

\* C6: the emitted items are a prefix of (manifest files in PRIORITY_FILES
\* order, then source samples in collection order) and only the last
\* emitted item may be truncated; so the omitted manifest files are a suffix
\* of the priority order, and a source sample appears only after every
\* collected manifest file, untruncated.
C6_EmittedIsPrefix ==
    context.built =>
        LET items == [i \in 1..Len(files) |-> [kind |-> "file", item |-> files[i]]]
                     \o [i \in 1..Len(source_files) |->
                            [kind |-> "source", item |-> source_files[i]]]
        IN  /\ \A i, j \in 1..Len(files) :
                  i < j => PriorityIndex(files[i].name) < PriorityIndex(files[j].name)
            /\ Len(Emitted) <= Len(items)
            /\ \A i \in 1..Len(Emitted) :
                  /\ Emitted[i].kind = items[i].kind
                  /\ Emitted[i].name = items[i].item.name
                  /\ Emitted[i].content = items[i].item.content
                  /\ Emitted[i].snippet <= Emitted[i].content
                  /\ i < Len(Emitted) => Emitted[i].snippet = Emitted[i].content
            /\ (\E i \in 1..Len(Emitted) : Emitted[i].kind = "source")
                  => \A i \in 1..Len(files) :
                        /\ Emitted[i].name = files[i].name
                        /\ Emitted[i].snippet = files[i].content

\* a manifest file is left out for want of room for its header although
\* budget remains, and a source sample waits behind it
C6_Witness ==
    /\ context.built
    /\ context.budget > 0
    /\ Len(Emitted) < Len(files)
    /\ source_files # <<>>

(***************************************************************************)
(* pick_source_files on its own (specification SpecPick)                   *)
(***************************************************************************)
\* three entry points; names with source extensions, one in upper case, one
\* with two dots; a name without extension and one that is only an extension
ListingNames ==
    << <<"m","a","i","n",".","p","y">>, <<"a","p","p",".","p","y">>, <<"i","n","d","e","x",".","j","s">>, <<"B",".","p","y">>, <<"a",".","C">>, <<"a",".","c">>, <<"x",".","t","a","r",".","r","s">>,
       <<"n","o","t","e","s",".","t","x","t">>, <<".","p","y">> >>

\* the listing, in ListingNames order, of the names picked by S with the
\* kinds kind gives them
RECURSIVE ListingSeq(_, _, _)
ListingSeq(i, S, kind) ==
    IF i > Len(ListingNames) THEN <<>>
    ELSE (IF i \in S THEN <<[name |-> ListingNames[i], type |-> kind[i]]>> ELSE <<>>)
         \o ListingSeq(i + 1, S, kind)

ListingInputs ==
    UNION {{ListingSeq(1, S, kind) : kind \in [S -> {"file", "dir"}]} :
              S \in {T \in SUBSET (1..Len(ListingNames)) : Cardinality(T) <= MaxEntries}}

InitPick ==
    /\ pc = "pick"
    /\ entries \in ListingInputs
    /\ IdleExcept({"entries"})

SpecPick == InitPick /\ [][PickSources]_vars

Picked == pc \in {"source", "check"}

EntryPointIndex(name) ==
    CHOOSE i \in 1..Len(SOURCE_ENTRY_POINTS) : SOURCE_ENTRY_POINTS[i] = name

IsEntryPoint(name) == \E i \in 1..Len(SOURCE_ENTRY_POINTS) : SOURCE_ENTRY_POINTS[i] = name

\* the name, lower-cased, ends with a source extension that follows a stem
\* holding a character other than "."
HasSourceExtension(name) ==
    \E e \in SOURCE_EXTENSIONS :
        /\ EndsWith(Lower(name), e)
        /\ \E k \in 1..(Len(name) - Len(e)) : name[k] # "."

\* seq lists, in increasing order under Before, the first up to two of Pool
FirstTwoOf(seq, Pool, Before(_, _)) ==
    /\ Len(seq) = Min(2, Cardinality(Pool))
    /\ \A i \in 1..Len(seq) : seq[i] \in Pool
    /\ Len(seq) = 2 => Before(seq[1], seq[2])
    /\ \A n \in Pool : (\A i \in 1..Len(seq) : seq[i] # n)
                          => \A i \in 1..Len(seq) : Before(seq[i], n)

\* C10: pick_source_files returns at most two distinct names of file entries:
\* the first up to two entry points present, in SOURCE_ENTRY_POINTS order,
\* when any is present; otherwise the first up to two file names, in
\* lexicographic order, whose lower-cased extension is a source extension.
C10_PickMatchesReference ==
    Picked =>
        LET fileNames == {entries[i].name : i \in {j \in 1..Len(entries) :
                                                      entries[j].type = "file"}}
            present == {n \in fileNames : IsEntryPoint(n)}
            withExt == {n \in fileNames : HasSourceExtension(n)}
        IN  /\ Len(chosen) <= 2
            /\ \A i, j \in 1..Len(chosen) : i # j => chosen[i] # chosen[j]
            /\ \A i \in 1..Len(chosen) : chosen[i] \in fileNames
            /\ IF present # {}
               THEN FirstTwoOf(chosen, present,
                               LAMBDA a, b : EntryPointIndex(a) < EntryPointIndex(b))
               ELSE FirstTwoOf(chosen, withExt, StrLess)

\* one entry point is present and is all that is chosen, although another
\* file has a source extension
C10_Witness ==
    /\ Picked
    /\ Len(chosen) = 1 /\ IsEntryPoint(chosen[1])
    /\ \E i \in 1..Len(entries) :
          /\ entries[i].type = "file"
          /\ entries[i].name # chosen[1]
          /\ HasSourceExtension(entries[i].name)

(***************************************************************************)
(* The unwrapping of call_nebius on its own (specification SpecUnwrap)     *)
(***************************************************************************)
\* clean JSON objects: empty, the three fields, one field, nested with inner
\* whitespace, and two whose string value holds a code fence
CleanObjects ==
    { <<"{","}">>,
      <<"{","\"","s","u","m","m","a","r","y","\"",":","\"","x","\"",",","\"","t","e","c","h","n","o","l","o","g","i","e","s","\"",":","[","\"","G","o","\"","]",",","\"","s","t","r","u","c","t","u","r","e","\"",":","\"","y","\"","}">>,
      <<"{","\"","s","u","m","m","a","r","y","\"",":","\"","x","\"","}">>,
      <<"{"," ","\"","a","\""," ",":"," ","{"," ","\"","b","\""," ",":"," ","["," ","1"," ",","," ","2"," ","]"," ","}"," ","}">>,
      <<"{","\"","s","\"",":","\"","BT","BT","BT","\"","}">>,
      <<"{","\"","s","\"",":","\"","BT","BT","BT","j","s","o","n"," ","x","\"","}">> }

CleanTexts == {a \o s \o b : a \in Pads, b \in Pads, s \in CleanObjects}

Wrappings == {"none", "json", "bare"}

\* s as it is, inside ```json ... ```, or inside ``` ... ```
Wrap(w, s) ==
    IF w = "json" THEN FENCE \o JSON_TAG \o <<"\n">> \o s \o <<"\n">> \o FENCE
    ELSE IF w = "bare" THEN FENCE \o <<"\n">> \o s \o <<"\n">> \o FENCE
    ELSE s

InitUnwrap ==
    /\ pc = "unwrap"
    /\ provider \in {[outcome |-> "completion", has_content |-> TRUE,
                      content |-> Wrap(w, s)] : w \in Wrappings, s \in CleanTexts}
    /\ IdleExcept({"provider"})

SpecUnwrap == InitUnwrap /\ [][UnwrapCompletion]_vars

\* C9: unwrapping a clean JSON object text and unwrapping its fenced version
\* give the same parsed object, and the fence stripping changes nothing when
\* applied to text it has already stripped.
C9_FencedParsesAsClean ==
    pc = "respond" =>
        \A w \in Wrappings, s \in CleanTexts :
            provider.content = Wrap(w, s) =>
                LET stripped == StripFences(Strip(provider.content))
                IN  /\ raised = NoRaise
                    /\ result.ok /\ result.kind = "object"
                    /\ result = unwrap_response(s)
                    /\ StripFences(Strip(stripped)) = stripped
                    /\ StripFences(Strip(s)) = Strip(s)

\* a fenced text has been unwrapped to an object with a key
C9_Witness ==
    /\ pc = "respond"
    /\ StartsWith(provider.content, FENCE \o JSON_TAG)
    /\ result.ok /\ result.kind = "object" /\ KEY_SUMMARY \in result.keys

====
